---- MODULE Spec2Model ----
(***************************************************************************)
(* Session/role orchestration of the mediasoup SFU server: the room        *)
(* registry (server.ts `rooms`), Room and Peer objects (room.ts), and the  *)
(* socket.io handlers of server.ts.                                        *)
(*                                                                         *)
(* Objects are heap cells named by an id drawn from one allocator (nextId),*)
(* because handlers keep references to Room and Peer objects across their  *)
(* await points while the registry and the peer maps change under them.    *)
(* `handles` holds the media-engine objects that are open: close() removes *)
(* a handle, and closing an absent handle changes nothing.  A handle is    *)
(* closed only by a close() call of the source.  Room and Peer objects     *)
(* that no map and no suspended handler refers to are dropped.             *)
(* A handler runs atomically up to each await on the media engine          *)
(* (createRouter, createWebRtcTransport, transport.produce,                *)
(* transport.consume); the part after the await is a separate Resume       *)
(* action.  An await on an already settled promise (ensureRoom when the    *)
(* room is registered) resumes in a microtask, before any other socket     *)
(* event is dispatched, so it is not an interleaving point.                *)
(* A request whose callback answers an error before anything is changed    *)
(* leaves the state as it is; the answer is the value of the handler's     *)
(* ...Answer operator and the events of a handler are its ...Events.       *)
(* An invite token is its payload and a signature; the signature scheme is *)
(* taken as ideal (a signature is determined by, and determines, payload   *)
(* and key).  Time is an input of the handlers that read the clock, in     *)
(* units of twelve hours.  Spec is the server whose joins carry no invite  *)
(* token; InviteSpec is the room lifecycle with POST /api/rooms, joins     *)
(* with and without tokens and disconnects, at varying times.              *)
(* LiveSpec is Spec with a media engine that settles every call;           *)
(* RoomsSpec is the server with requests that name either of two rooms;    *)
(* FaultSpec is Spec with a media engine whose close() can throw.          *)
(* Left out: connectTransport and resumeConsumer, which change no Room or  *)
(* Peer state, and the display names.                                      *)
(***************************************************************************)
EXTENDS Integers, FiniteSets, Sequences, TLC

\* Bound of the model: number of objects (rooms, peers, transports,
\* producers, consumers) ever allocated.
MaxObjs == 6

\* Bound of the model: number of consumers that may be allocated beyond
\* MaxObjs (a consumer of another peer's producer is the seventh object: a
\* room, two peers, a send transport, a producer, a recv transport, a consumer).
MaxConsumers == 1

Conns == {"s1", "s2"}
RoomIds == {"r1", "r2"}
\* the room id the requests of Spec and InviteSpec name
MainRooms == {"r1"}
UserIds == {"u1"}
Ids == 1..(MaxObjs + MaxConsumers)

\* `undefined`: the result of Map.get on an absent key, an unset optional field.
NoObj == 0

VARIABLES
  rooms,      \* server.ts `rooms`: room id -> Room object (or NoObj)
  roomObjs,   \* Room objects: [id, hostSocketId, peers, routerClosed]
  peerObjs,   \* Peer objects: [id, userId, role, sendTransport, recvTransport, producers, consumers]
  handles,    \* open media-engine handles: [kind, room, owner, conn, src]
  sessions,   \* inviteManager.roomSessions: room id -> session (or NoObj)
  sioRooms,   \* socket.io room membership: room id -> set of connections
  connected,  \* connection -> TRUE until its disconnect event
  pending,    \* handlers suspended on a media-engine call
  nextId,     \* next object id
  hist        \* history: first admitted peer and host peers of every Room, demotion records

vars == <<rooms, roomObjs, peerObjs, handles, sessions, sioRooms, connected,
          pending, nextId, hist>>

Roles == {"host", "producer", "consumer", "waiting"}

----------------------------------------------------------------------------
(* room.ts *)

\* new Room(id, router, worker, hostSocketId)
NewRoom(id, hostSocketId) ==
  [id |-> id, hostSocketId |-> hostSocketId,
   peers |-> [c \in Conns |-> NoObj], routerClosed |-> FALSE]

\* the Peer literal of Room.addPeer
NewPeer(socketId, userId, role) ==
  [id |-> socketId, userId |-> userId, role |-> role,
   sendTransport |-> NoObj, recvTransport |-> NoObj,
   producers |-> {}, consumers |-> {}]

\* an addPeer that evicts the peers the room already holds
addPeer_evicts(room, socketId, pid) ==
  [room EXCEPT !.peers = [c \in Conns |-> IF c = socketId THEN pid ELSE NoObj]]

\* Room.addPeer: this.peers.set(socketId, peer) -- an existing entry is replaced
addPeer(room, socketId, pid) ==
  [room EXCEPT !.peers[socketId] = pid]

getPeer(room, socketId) == room.peers[socketId]

getPeerCount(room) == Cardinality({c \in Conns : room.peers[c] # NoObj})

isEmpty(room) == getPeerCount(room) = 0

\* a canPeerProduce that lets every admitted peer produce
canPeerProduce_anyAdmitted(room, po, peerId) ==
  IF getPeer(room, peerId) = NoObj THEN FALSE
  ELSE po[getPeer(room, peerId)].role # "waiting"

\* Room.canPeerProduce
canPeerProduce(room, po, peerId) ==
  IF getPeer(room, peerId) = NoObj THEN FALSE
  ELSE po[getPeer(room, peerId)].role = "producer"
       \/ po[getPeer(room, peerId)].role = "host"

\* an isHost that holds of every peer of the room
isHost_anyPeer(room, po, peerId) ==
  getPeer(room, peerId) # NoObj

\* an isHost that is true of a peer whose connection is host of any room
isHost_inAnyRoom(room, po, peerId) ==
  IF getPeer(room, peerId) = NoObj THEN FALSE
  ELSE \E r \in DOMAIN roomObjs :
         /\ roomObjs[r].peers[peerId] \in DOMAIN po
         /\ (po[roomObjs[r].peers[peerId]].role = "host" \/ peerId = roomObjs[r].hostSocketId)

\* Room.isHost
isHost(room, po, peerId) ==
  IF getPeer(room, peerId) = NoObj THEN FALSE
  ELSE po[getPeer(room, peerId)].role = "host" \/ peerId = room.hostSocketId

\* Room.promotePeerToProducer: the boolean it returns
promotePeerToProducerOk(room, po, peerId) ==
  /\ getPeer(room, peerId) # NoObj
  /\ po[getPeer(room, peerId)].role = "consumer"

\* Room.promotePeerToProducer: the peer objects afterwards
promotePeerToProducer(room, po, peerId) ==
  IF promotePeerToProducerOk(room, po, peerId)
  THEN [po EXCEPT ![getPeer(room, peerId)].role = "producer"]
  ELSE po

\* an approvePeerJoin that approves a peer of any role
approvePeerJoinOk_anyRole(room, po, peerId) ==
  getPeer(room, peerId) # NoObj

\* Room.approvePeerJoin: the boolean it returns
approvePeerJoinOk(room, po, peerId) ==
  /\ getPeer(room, peerId) # NoObj
  /\ po[getPeer(room, peerId)].role = "waiting"

\* Room.approvePeerJoin: the peer objects afterwards
approvePeerJoin(room, po, peerId) ==
  IF approvePeerJoinOk(room, po, peerId)
  THEN [po EXCEPT ![getPeer(room, peerId)].role = "consumer"]
  ELSE po

\* handle.close() on each of ids: idempotent
closeAll(hs, ids) ==
  [h \in DOMAIN hs \ ids |-> hs[h]]

\* a demotePeerToConsumer that closes the send transport but leaves it set
demotePeerToConsumer_keepsTransport(room, po, peerId) ==
  IF getPeer(room, peerId) = NoObj THEN po
  ELSE [po EXCEPT ![getPeer(room, peerId)] =
          [@ EXCEPT !.role = "consumer", !.producers = {}]]

\* Room.demotePeerToConsumer: the peer objects afterwards
demotePeerToConsumer(room, po, peerId) ==
  IF getPeer(room, peerId) = NoObj THEN po
  ELSE [po EXCEPT ![getPeer(room, peerId)] =
          [@ EXCEPT !.role = "consumer", !.sendTransport = NoObj, !.producers = {}]]

\* a demotePeerToConsumer that also closes the consumers that other peers hold
\* for the producers it closes
demoteCloses_withConsumers(room, po, peerId) ==
  IF getPeer(room, peerId) = NoObj THEN {}
  ELSE (IF po[getPeer(room, peerId)].sendTransport # NoObj
        THEN {po[getPeer(room, peerId)].sendTransport} ELSE {})
       \cup po[getPeer(room, peerId)].producers
       \cup {h \in DOMAIN handles : handles[h].src \in po[getPeer(room, peerId)].producers}

\* Room.demotePeerToConsumer: the handles it closes
demoteCloses(room, po, peerId) ==
  IF getPeer(room, peerId) = NoObj THEN {}
  ELSE (IF po[getPeer(room, peerId)].sendTransport # NoObj
        THEN {po[getPeer(room, peerId)].sendTransport} ELSE {})
       \cup po[getPeer(room, peerId)].producers

\* Room.removePeer / the disconnect handler: the handles closed for a peer
peerHandles(p) ==
  p.producers \cup p.consumers
  \cup (IF p.sendTransport # NoObj THEN {p.sendTransport} ELSE {})
  \cup (IF p.recvTransport # NoObj THEN {p.recvTransport} ELSE {})

\* Room.removePeer: this.peers.delete(socketId)
removePeer(room, socketId) ==
  [room EXCEPT !.peers[socketId] = NoObj]

\* Room.getAllProducersForPeer
getAllProducersForPeer(room, po, excludePeerId) ==
  UNION {po[room.peers[c]].producers :
           c \in {d \in Conns : d # excludePeerId /\ room.peers[d] # NoObj}}

----------------------------------------------------------------------------
(* server.ts helpers *)

\* a role assignment that makes every joining peer host
AssignedRole_alwaysHost(room) == "host"

\* the role computed by the join handler
AssignedRole(room) ==
  IF getPeerCount(room) = 0 THEN "host" ELSE "waiting"

\* Array.from(room.peers.values()).find(p => p.role === "host" || p.id === room.hostSocketId)
findHost(room, po) ==
  {c \in Conns : room.peers[c] # NoObj
                 /\ (po[room.peers[c]].role = "host" \/ c = room.hostSocketId)}

\* io.to(roomId).emit(ev, ...): every member of the socket.io room, the
\* sender included
Broadcast_toAll(rid, sender, ev, about) ==
  {[to |-> c, ev |-> ev, peerId |-> about] : c \in sioRooms[rid]}

\* socket.to(roomId).emit(ev, ...): every member of the socket.io room but the sender
Broadcast(rid, sender, ev, about) ==
  {[to |-> c, ev |-> ev, peerId |-> about] : c \in sioRooms[rid] \ {sender}}

\* io.to(socketId).emit(ev, ...): the socket of that id, if it is connected
Direct(to, ev, about) ==
  {[to |-> c, ev |-> ev, peerId |-> about] : c \in {d \in Conns : d = to /\ connected[d]}}

\* a handler suspended on a media-engine call: the references it holds (Room
\* object, Peer object, transport tid, producer src); tag tells apart equal
\* requests in flight; stale: its peer was demoted while it was suspended
Suspended(op, conn, rid, room, peer, kind, userId, tid, src, tag) ==
  [op |-> op, conn |-> conn, rid |-> rid, room |-> room, peer |-> peer,
   kind |-> kind, userId |-> userId, tid |-> tid, src |-> src, tag |-> tag,
   stale |-> FALSE]

\* the smallest tag no suspended handler carries
FreeTag(pend) ==
  CHOOSE n \in 1..(Cardinality(pend) + 1) :
    /\ n \notin {p.tag : p \in pend}
    /\ \A m \in 1..(n - 1) : m \in {p.tag : p \in pend}

\* objects the suspended handlers allocate when their media-engine call
\* resolves: join a Room and a Peer, the others one
Reserved(pend) ==
  Cardinality(pend) + Cardinality({p \in pend : p.op = "join"})

\* Bound of the model: number of handlers suspended at one time.
MaxPending == 2

\* a request is issued only while the objects it allocates fit the bound
CanIssue(need) ==
  /\ (nextId - 1) + Reserved(pending) + need <= MaxObjs
  /\ Cardinality(pending) < MaxPending

\* a media-engine handle: a transport, a producer or a consumer of the router
\* of a Room, created for a Peer object of a connection; src is the producer a
\* consumer consumes
Handle(kind, room, owner, conn, src) ==
  [kind |-> kind, room |-> room, owner |-> owner, conn |-> conn, src |-> src]

\* Bound of the model: the clock readings are 0..MaxTime
MaxTime == 3
Times == 0..MaxTime

\* the token lifetime, 24 hours, in units of twelve hours
INVITE_TOKEN_EXPIRY == 2

\* the signing key of the server, and a key that is not the server's
JWT_SECRET == "secret"
OtherKey == "other"

\* a room id tokens can be bound to that is not the room of the model
OtherRoom == "r2"
TokenRooms == RoomIds \cup {OtherRoom}

\* jwt.sign: the signature of a payload under a key
Sign(roomId, iat, exp, key) == [roomId |-> roomId, iat |-> iat, exp |-> exp, key |-> key]

\* a token: the payload (roomId, iat, exp) and its signature
Token(roomId, iat, exp, sig) == [roomId |-> roomId, iat |-> iat, exp |-> exp, sig |-> sig]

\* no inviteToken in the request (undefined or the empty string)
NoToken == Token("", 0, 0, Sign("", 0, 0, ""))

\* inviteManager.generateInviteToken at clock reading now
generateInviteToken(roomId, now) ==
  Token(roomId, now, now + INVITE_TOKEN_EXPIRY,
        Sign(roomId, now, now + INVITE_TOKEN_EXPIRY, JWT_SECRET))

\* jwt.verify(token, key) at clock reading now does not throw: the signature
\* is the one of the payload under the key, and the token has not expired
JwtVerifies(tok, key, now) ==
  /\ tok.sig = Sign(tok.roomId, tok.iat, tok.exp, key)
  /\ now < tok.exp

\* a verifyInviteToken that does not look at the expiry
verifyInviteToken_noExpiry(tok, now) ==
  IF tok.sig = Sign(tok.roomId, tok.iat, tok.exp, JWT_SECRET)
  THEN [roomId |-> tok.roomId, valid |-> TRUE]
  ELSE [roomId |-> "", valid |-> FALSE]

\* a verifyInviteToken that accepts only the token stored in the session of
\* the room the token is bound to
verifyInviteToken_storedOnly(tok, now) ==
  IF /\ JwtVerifies(tok, JWT_SECRET, now)
     /\ tok.roomId \in RoomIds
     /\ sessions[tok.roomId].exists /\ sessions[tok.roomId].inviteToken = tok
  THEN [roomId |-> tok.roomId, valid |-> TRUE]
  ELSE [roomId |-> "", valid |-> FALSE]

\* inviteManager.verifyInviteToken at clock reading now
verifyInviteToken(tok, now) ==
  IF JwtVerifies(tok, JWT_SECRET, now)
  THEN [roomId |-> tok.roomId, valid |-> TRUE]
  ELSE [roomId |-> "", valid |-> FALSE]

\* the tokens a client can send: the ones the server minted, minted tokens
\* with an altered payload (later expiry, other room), and tokens signed with
\* a key that is not the server's
Minted == {generateInviteToken(r, t) : r \in TokenRooms, t \in Times}
Tampered ==
  {[g EXCEPT !.exp = @ + INVITE_TOKEN_EXPIRY] : g \in Minted}
  \cup ({[g EXCEPT !.roomId = r] : g \in Minted, r \in TokenRooms} \ Minted)
Forged ==
  {Token(r, t, t + INVITE_TOKEN_EXPIRY, Sign(r, t, t + INVITE_TOKEN_EXPIRY, OtherKey)) :
     r \in TokenRooms, t \in Times}
Tokens == Minted \cup Tampered \cup Forged

\* inviteManager.roomSessions entries; NoSession stands for an absent key
NoSession ==
  [exists |-> FALSE, hostSocketId |-> "", createdAt |-> 0, inviteToken |-> NoToken]

\* a createRoomSession that mints the token but does not store the session
createRoomSession_notStored(ss, rid, hostSocketId, now) == ss

\* inviteManager.createRoomSession at clock reading now: the store after it
createRoomSession(ss, rid, hostSocketId, now) ==
  [ss EXCEPT ![rid] = [exists |-> TRUE, hostSocketId |-> hostSocketId,
                       createdAt |-> now,
                       inviteToken |-> generateInviteToken(rid, now)]]

\* inviteManager.createRoomSession: the token it returns
createRoomSessionToken(ss, rid, hostSocketId, now) ==
  createRoomSession(ss, rid, hostSocketId, now)[rid].inviteToken

\* a removeRoomSession that leaves the session in the store
removeRoomSession_keeps(ss, rids) == ss

\* inviteManager.removeRoomSession
removeRoomSession(ss, rids) ==
  [rid \in RoomIds |-> IF rid \in rids THEN NoSession ELSE ss[rid]]

\* a callback({error}) that returns before anything is changed or emitted:
\* the answer is the value of the handler's ...Answer operator
Refused == UNCHANGED vars

\* Room objects still referred to: registered, holding a peer, or held by a
\* suspended handler
LiveRooms(ro, rg, pend) ==
  {r \in DOMAIN ro : \/ \E rid \in RoomIds : rg[rid] = r
                     \/ ~isEmpty(ro[r])
                     \/ \E p \in pend : p.room = r}

\* Peer objects still referred to: in a peer map or held by a suspended handler
LivePeers(po, ro, pend) ==
  {u \in DOMAIN po : \/ \E r \in DOMAIN ro, c \in Conns : ro[r].peers[c] = u
                     \/ \E p \in pend : p.peer = u}

\* the id of the n-th object a step creates
Fresh(n) == nextId + n - 1

\* a media-engine call resolves only while the objects then created fit the bound
CanCreate(n) == Fresh(n) <= MaxObjs

\* the new heap: the registry, Room objects, Peer objects, open handles,
\* sessions, suspended handlers and history, after a step that created n
\* objects; Room and Peer objects nothing refers to any more are dropped
Commit(n, rg, ro, po, hs, ss, pend, hi) ==
  /\ nextId' = nextId + n
  /\ rooms' = rg
  /\ roomObjs' = [r \in LiveRooms(ro, rg, pend) |-> ro[r]]
  /\ peerObjs' = [u \in LivePeers(po, ro, pend) |-> po[u]]
  /\ handles' = hs
  /\ sessions' = ss
  /\ pending' = pend
  /\ hist' = [firstPeer   |-> [r \in DOMAIN hi.firstPeer \cap LiveRooms(ro, rg, pend)
                                 |-> hi.firstPeer[r]],
              hostPeers   |-> [r \in DOMAIN hi.hostPeers \cap LiveRooms(ro, rg, pend)
                                 |-> hi.hostPeers[r]],
              demotedSend |-> [u \in DOMAIN hi.demotedSend \cap LivePeers(po, ro, pend)
                                 |-> hi.demotedSend[u]],
              staleSend   |-> hi.staleSend \cap DOMAIN hs]

----------------------------------------------------------------------------
Init ==
  /\ rooms = [rid \in RoomIds |-> NoObj]
  /\ roomObjs = <<>>
  /\ peerObjs = <<>>
  /\ handles = <<>>
  /\ sessions = [rid \in RoomIds |-> NoSession]
  /\ sioRooms = [rid \in RoomIds |-> {}]
  /\ connected = [c \in Conns |-> TRUE]
  /\ pending = {}
  /\ nextId = 1
  /\ hist = [firstPeer |-> <<>>, hostPeers |-> <<>>,
             demotedSend |-> <<>>, staleSend |-> {}]

----------------------------------------------------------------------------
(* join *)

\* ensureRoom after Room.create resolved: rooms.set
ensureRoomSet(rg, rid, r) == [rg EXCEPT ![rid] = r]

\* the events the join handler emits: peerJoined to the room, and joinRequest
\* to the host when the role is waiting
JoinEvents(c, rid, room1, po1, role) ==
  Broadcast(rid, c, "peerJoined", c)
  \cup (IF role = "waiting"
        THEN UNION {Direct(h, "joinRequest", c) : h \in findHost(room1, po1)}
        ELSE {})

\* The join handler from the role assignment on, for the Room object r as it
\* is in ro; pid is the id of the Peer object it creates.
JoinRest(n, c, rid, userId, r, pid, ro, rg, ss, pend) ==
  LET room  == ro[r]
      role  == AssignedRole(room)
      room1 == addPeer(room, c, pid)
      po1   == peerObjs @@ (pid :> NewPeer(c, userId, role))
      hi1   == [hist EXCEPT
                  !.firstPeer = IF r \notin DOMAIN @ THEN @ @@ (r :> pid) ELSE @,
                  !.hostPeers = IF role # "host" THEN @
                                ELSE IF r \in DOMAIN @
                                THEN [@ EXCEPT ![r] = @ \cup {pid}]
                                ELSE @ @@ (r :> {pid})]
  IN /\ Commit(n, rg, [ro EXCEPT ![r] = room1], po1, handles, ss, pend, hi1)
     /\ sioRooms' = IF connected[c]
                    THEN [sioRooms EXCEPT ![rid] = @ \cup {c}]
                    ELSE sioRooms
     /\ UNCHANGED connected

\* a join that does not compare the room id of the token with the requested one
JoinAnswer_anyRoom(rid, tok, now) ==
  IF tok # NoToken /\ ~verifyInviteToken(tok, now).valid
  THEN "Invalid or expired invite token"
  ELSE "ok"

\* the token check of join: what the callback answers when it returns there,
\* "ok" when the handler goes on to ensureRoom
JoinAnswer(rid, tok, now) ==
  IF tok # NoToken
     /\ (~verifyInviteToken(tok, now).valid \/ verifyInviteToken(tok, now).roomId # rid)
  THEN "Invalid or expired invite token"
  ELSE "ok"

\* join on a registered room: ensureRoom returns it without suspending
Join(c, rid, userId, tok, now) ==
  /\ connected[c]
  /\ rooms[rid] # NoObj
  /\ IF JoinAnswer(rid, tok, now) # "ok" THEN Refused
     ELSE /\ CanIssue(1)
          /\ JoinRest(1, c, rid, userId, rooms[rid], Fresh(1), roomObjs, rooms,
                      sessions, pending)

\* join on an unregistered room: ensureRoom suspends in Room.create
\* (worker.createRouter)
JoinSuspend(c, rid, userId, tok, now) ==
  /\ connected[c]
  /\ rooms[rid] = NoObj
  /\ IF JoinAnswer(rid, tok, now) # "ok" THEN Refused
     ELSE /\ CanIssue(2)
          /\ pending' = pending \cup
                {Suspended("join", c, rid, NoObj, NoObj, "", userId, NoObj, NoObj,
                           FreeTag(pending))}
          /\ UNCHANGED <<rooms, roomObjs, peerObjs, handles, sessions, sioRooms,
                         connected, nextId, hist>>

\* createRouter resolved: the rest of ensureRoom (new Room, rooms.set,
\* createRoomSession), then the rest of join, at clock reading now
JoinResume(p, now) ==
  /\ p \in pending /\ p.op = "join"
  /\ CanCreate(2)
  /\ JoinRest(2, p.conn, p.rid, p.userId, Fresh(1), Fresh(2),
              roomObjs @@ (Fresh(1) :> NewRoom(p.rid, p.conn)),
              ensureRoomSet(rooms, p.rid, Fresh(1)),
              createRoomSession(sessions, p.rid, p.conn, now),
              pending \ {p})

\* a failing room creation that leaves the room id in the registry, bound to
\* a Room object without router that another handler still holds
JoinFail_registers(p) ==
  /\ p \in pending /\ p.op = "join"
  /\ \E q \in pending \ {p} : q.room # NoObj /\ rooms' = ensureRoomSet(rooms, p.rid, q.room)
  /\ pending' = pending \ {p}
  /\ UNCHANGED <<roomObjs, peerObjs, handles, sessions, sioRooms,
                 connected, nextId, hist>>

\* createRouter rejected: the catch of join
JoinFail(p) ==
  /\ p \in pending /\ p.op = "join"
  /\ pending' = pending \ {p}
  /\ UNCHANGED <<rooms, roomObjs, peerObjs, handles, sessions, sioRooms,
                 connected, nextId, hist>>

----------------------------------------------------------------------------
(* host-only role changes *)

\* the promoteToProducer handler: what its callback answers
PromoteAnswer(c, rid, peerId) ==
  IF rooms[rid] = NoObj THEN "Room not found"
  ELSE IF ~isHost(roomObjs[rooms[rid]], peerObjs, c)
  THEN "Only host can approve permissions"
  ELSE IF getPeer(roomObjs[rooms[rid]], peerId) = NoObj THEN "Peer not found"
  ELSE IF ~promotePeerToProducerOk(roomObjs[rooms[rid]], peerObjs, peerId)
  THEN "Peer is already a producer or host"
  ELSE "ok"

\* the promoteToProducer handler: the events it emits
PromoteEvents(c, rid, peerId) ==
  IF PromoteAnswer(c, rid, peerId) # "ok" THEN {}
  ELSE Direct(peerId, "promotedToProducer", peerId)
       \cup Broadcast(rid, c, "peerPromoted", peerId)

\* the promoteToProducer handler
PromoteToProducer(c, rid, peerId) ==
  /\ connected[c]
  /\ IF PromoteAnswer(c, rid, peerId) # "ok" THEN Refused
     ELSE /\ peerObjs' = promotePeerToProducer(roomObjs[rooms[rid]], peerObjs, peerId)
          /\ UNCHANGED <<rooms, roomObjs, handles, sessions, sioRooms,
                         connected, pending, nextId, hist>>

\* the approveJoin handler: what its callback answers
ApproveAnswer(c, rid, peerId) ==
  IF rooms[rid] = NoObj THEN "Room not found"
  ELSE IF ~isHost(roomObjs[rooms[rid]], peerObjs, c)
  THEN "Only host can approve joining"
  ELSE IF getPeer(roomObjs[rooms[rid]], peerId) = NoObj THEN "Peer not found"
  ELSE IF ~approvePeerJoinOk(roomObjs[rooms[rid]], peerObjs, peerId)
  THEN "Peer is not waiting"
  ELSE "ok"

\* the approveJoin handler: the promote flag of the joinApproved event and of
\* the answer, for the promote field of the request (!!data.promote)
JoinApprovedPromote(promote) == promote

\* the approveJoin handler: the events it emits
ApproveEvents(c, rid, peerId) ==
  IF ApproveAnswer(c, rid, peerId) # "ok" THEN {}
  ELSE Direct(peerId, "joinApproved", peerId)
       \cup Broadcast(rid, c, "peerApproved", peerId)

\* the approveJoin handler
ApproveJoin(c, rid, peerId, promote) ==
  /\ connected[c]
  /\ IF ApproveAnswer(c, rid, peerId) # "ok" THEN Refused
     ELSE LET room == roomObjs[rooms[rid]]
              po1  == approvePeerJoin(room, peerObjs, peerId)
              po2  == IF promote THEN promotePeerToProducer(room, po1, peerId) ELSE po1
          IN /\ peerObjs' = po2
             /\ UNCHANGED <<rooms, roomObjs, handles, sessions, sioRooms,
                            connected, pending, nextId, hist>>

\* the demoteToConsumer handler: what its callback answers
DemoteAnswer(c, rid, peerId) ==
  IF rooms[rid] = NoObj THEN "Room not found"
  ELSE IF ~isHost(roomObjs[rooms[rid]], peerObjs, c)
  THEN "Only host can revoke permissions"
  ELSE IF getPeer(roomObjs[rooms[rid]], peerId) = NoObj THEN "Peer not found"
  ELSE IF peerObjs[getPeer(roomObjs[rooms[rid]], peerId)].role = "host"
  THEN "Cannot demote host"
  ELSE "ok"

\* the demoteToConsumer handler: the events it emits
DemoteEvents(c, rid, peerId) ==
  IF DemoteAnswer(c, rid, peerId) # "ok" THEN {}
  ELSE Direct(peerId, "demotedToConsumer", peerId)
       \cup Broadcast(rid, c, "peerDemoted", peerId)

\* the demoteToConsumer handler
DemoteToConsumer(c, rid, peerId) ==
  /\ connected[c]
  /\ IF DemoteAnswer(c, rid, peerId) # "ok" THEN Refused
     ELSE LET room == roomObjs[rooms[rid]]
              pid  == getPeer(room, peerId)
              snd  == peerObjs[pid].sendTransport
          IN /\ Commit(0, rooms, roomObjs,
                       demotePeerToConsumer(room, peerObjs, peerId),
                       closeAll(handles, demoteCloses(room, peerObjs, peerId)),
                       sessions,
                       {IF p.op = "createTransport" /\ p.kind = "send" /\ p.peer = pid
                        THEN [p EXCEPT !.stale = TRUE] ELSE p : p \in pending},
                       [hist EXCEPT !.demotedSend =
                           IF snd = NoObj THEN @
                           ELSE IF pid \in DOMAIN @ THEN [@ EXCEPT ![pid] = snd]
                           ELSE @ @@ (pid :> snd)])
             /\ UNCHANGED <<sioRooms, connected>>

\* the requestSpeakingPermission handler: what its callback answers
RequestAnswer(c, rid) ==
  IF rooms[rid] = NoObj THEN "Room not found"
  ELSE IF getPeer(roomObjs[rooms[rid]], c) = NoObj THEN "Peer not found"
  ELSE IF peerObjs[getPeer(roomObjs[rooms[rid]], c)].role \in {"producer", "host"}
  THEN "Already have speaking permission"
  ELSE "ok"

\* the requestSpeakingPermission handler: the events it emits
RequestEvents(c, rid) ==
  IF RequestAnswer(c, rid) # "ok" THEN {}
  ELSE UNION {Direct(h, "speakingPermissionRequest", c) :
                h \in findHost(roomObjs[rooms[rid]], peerObjs)}

\* a requestSpeakingPermission that grants the permission it is asked for
RequestSpeakingPermission_grants(c, rid) ==
  /\ connected[c]
  /\ IF RequestAnswer(c, rid) # "ok" THEN Refused
     ELSE /\ peerObjs' = [peerObjs EXCEPT ![getPeer(roomObjs[rooms[rid]], c)].role = "producer"]
          /\ UNCHANGED <<rooms, roomObjs, handles, sessions, sioRooms,
                         connected, pending, nextId, hist>>

\* the requestSpeakingPermission handler: it changes nothing
RequestSpeakingPermission(c, rid) ==
  /\ connected[c]
  /\ UNCHANGED vars

----------------------------------------------------------------------------
(* disconnect *)

\* the rooms of the registry that hold a peer for the socket
RoomsOf(c) ==
  {rid \in RoomIds : rooms[rid] # NoObj /\ roomObjs[rooms[rid]].peers[c] # NoObj}

\* the disconnect handler: the peerLeft events it emits
DisconnectEvents(c) ==
  UNION {{[to |-> d, ev |-> "peerLeft", peerId |-> c] : d \in sioRooms[rid] \ {c}} :
           rid \in RoomsOf(c)}

\* the disconnect handler: for every registered room holding the socket, close
\* the peer's handles, removePeer, peerLeft, and close and unregister the room
\* when it is left empty
Disconnect(c) ==
  LET rids    == RoomsOf(c)
      emptied == {rid \in rids : isEmpty(removePeer(roomObjs[rooms[rid]], c))}
      ro1     == [r \in DOMAIN roomObjs |->
                    IF \E rid \in rids : rooms[rid] = r
                    THEN [removePeer(roomObjs[r], c) EXCEPT
                            !.routerClosed = @ \/ isEmpty(removePeer(roomObjs[r], c))]
                    ELSE roomObjs[r]]
  IN
  /\ connected[c]
  /\ connected' = [connected EXCEPT ![c] = FALSE]
  /\ sioRooms' = [rid \in RoomIds |-> sioRooms[rid] \ {c}]
  /\ Commit(0, [rid \in RoomIds |-> IF rid \in emptied THEN NoObj ELSE rooms[rid]],
            ro1, peerObjs,
            closeAll(handles,
              UNION {peerHandles(peerObjs[roomObjs[rooms[rid]].peers[c]]) : rid \in rids}),
            removeRoomSession(sessions, emptied), pending, hist)

----------------------------------------------------------------------------
(* transports, produce, consume *)

\* the createTransport handler: what its callback answers when it does not throw
CreateTransportAnswer(c, rid, kind) ==
  IF rooms[rid] = NoObj THEN "Room not found"
  ELSE IF getPeer(roomObjs[rooms[rid]], c) = NoObj THEN "Peer not found"
  ELSE IF kind = "send" /\ ~canPeerProduce(roomObjs[rooms[rid]], peerObjs, c)
  THEN "Permission denied: produce"
  ELSE IF kind = "recv" /\ peerObjs[getPeer(roomObjs[rooms[rid]], c)].role = "waiting"
  THEN "Permission denied: waiting"
  ELSE "ok"

\* the transport the createTransport handler finds on the peer (NoObj: it
\* creates one)
TransportSlot(c, rid, kind) ==
  IF kind = "send" THEN peerObjs[getPeer(roomObjs[rooms[rid]], c)].sendTransport
  ELSE peerObjs[getPeer(roomObjs[rooms[rid]], c)].recvTransport

\* the createTransport handler up to room.createWebRtcTransport(); with a
\* transport already on the peer it returns that transport's parameters
CreateTransport(c, rid, kind) ==
  /\ connected[c]
  /\ IF CreateTransportAnswer(c, rid, kind) # "ok" THEN Refused
     ELSE IF TransportSlot(c, rid, kind) # NoObj THEN UNCHANGED vars
     ELSE /\ CanIssue(1)
          /\ pending' = pending \cup
               {Suspended("createTransport", c, rid, rooms[rid],
                          getPeer(roomObjs[rooms[rid]], c), kind, "",
                          NoObj, NoObj, FreeTag(pending))}
          /\ UNCHANGED <<rooms, roomObjs, peerObjs, handles, sessions,
                         sioRooms, connected, nextId, hist>>

\* createWebRtcTransport resolved: the transport is stored on the Peer object
\* the handler holds, and its parameters are returned
CreateTransportResume(p) ==
  /\ p \in pending /\ p.op = "createTransport"
  /\ CanCreate(1)
  /\ Commit(1, rooms, roomObjs,
            IF p.kind = "send"
            THEN [peerObjs EXCEPT ![p.peer].sendTransport = Fresh(1)]
            ELSE [peerObjs EXCEPT ![p.peer].recvTransport = Fresh(1)],
            handles @@ (Fresh(1) :> Handle("transport", p.room, p.peer, p.conn, NoObj)),
            sessions, pending \ {p},
            [hist EXCEPT !.staleSend = IF p.stale THEN @ \cup {Fresh(1)} ELSE @])
  /\ UNCHANGED <<sioRooms, connected>>

\* a catch that logs the rejection and never calls the callback: the request
\* stays unanswered
EngineFail_unanswered(p) ==
  /\ p \in pending /\ p.op \notin {"join", "unanswered"}
  /\ Commit(0, rooms, roomObjs, peerObjs, handles, sessions,
            (pending \ {p}) \cup {[p EXCEPT !.op = "unanswered"]}, hist)
  /\ UNCHANGED <<sioRooms, connected>>

\* a media-engine call rejected: the catch of the handler
EngineFail(p) ==
  /\ p \in pending /\ p.op # "join"
  /\ Commit(0, rooms, roomObjs, peerObjs, handles, sessions, pending \ {p}, hist)
  /\ UNCHANGED <<sioRooms, connected>>

\* a produce handler without the canPeerProduce check
ProduceAnswer_noRoleCheck(c, rid, transportId) ==
  IF rooms[rid] = NoObj THEN "Room not found"
  ELSE IF getPeer(roomObjs[rooms[rid]], c) = NoObj THEN "Peer not found"
  ELSE IF peerObjs[getPeer(roomObjs[rooms[rid]], c)].sendTransport = NoObj
          \/ peerObjs[getPeer(roomObjs[rooms[rid]], c)].sendTransport # transportId
  THEN "Send transport not found"
  ELSE "ok"

\* the produce handler: what its callback answers before transport.produce()
ProduceAnswer(c, rid, transportId) ==
  IF rooms[rid] = NoObj THEN "Room not found"
  ELSE IF getPeer(roomObjs[rooms[rid]], c) = NoObj THEN "Peer not found"
  ELSE IF ~canPeerProduce(roomObjs[rooms[rid]], peerObjs, c)
  THEN "Permission denied: produce"
  ELSE IF peerObjs[getPeer(roomObjs[rooms[rid]], c)].sendTransport = NoObj
          \/ peerObjs[getPeer(roomObjs[rooms[rid]], c)].sendTransport # transportId
  THEN "Send transport not found"
  ELSE "ok"

\* the produce handler up to transport.produce()
Produce(c, rid, transportId) ==
  /\ connected[c]
  /\ IF ProduceAnswer(c, rid, transportId) # "ok" THEN Refused
     ELSE /\ CanIssue(1)
          /\ pending' = pending \cup
               {Suspended("produce", c, rid, rooms[rid], getPeer(roomObjs[rooms[rid]], c),
                          "send", "", transportId, NoObj, FreeTag(pending))}
          /\ UNCHANGED <<rooms, roomObjs, peerObjs, handles, sessions,
                         sioRooms, connected, nextId, hist>>

\* a consume request is issued only while the objects it allocates (need: the
\* consumer, and the recv transport if the peer has none) fit the bound
CanIssueConsume(need) ==
  /\ (nextId - 1) + Reserved(pending) + need <= MaxObjs + MaxConsumers
  /\ Cardinality(pending) < MaxPending

\* transport.consume resolves only while the consumer fits the bound
CanCreateConsumer == Fresh(1) <= MaxObjs + MaxConsumers

\* a handle the engine creates on a transport is open if the transport still is
OnTransport(hs, tid, id, h) ==
  IF tid \in DOMAIN hs THEN hs @@ (id :> h) ELSE hs

\* transport.produce resolved: the newProducer event
ProduceEvents(p) == Broadcast(p.rid, p.conn, "newProducer", p.conn)

\* transport.produce resolved: store the producer, newProducer, callback
ProduceResume(p) ==
  /\ p \in pending /\ p.op = "produce"
  /\ CanCreate(1)
  /\ Commit(1, rooms, roomObjs,
            [peerObjs EXCEPT ![p.peer].producers = @ \cup {Fresh(1)}],
            OnTransport(handles, p.tid, Fresh(1),
                        Handle("producer", p.room, p.peer, p.conn, NoObj)),
            sessions, pending \ {p}, hist)
  /\ UNCHANGED <<sioRooms, connected>>

\* router.canConsume: the producer is an open producer of this router and the
\* capabilities are compatible
canConsume(r, producerId, compatible) ==
  /\ producerId \in DOMAIN handles
  /\ handles[producerId].kind = "producer"
  /\ handles[producerId].room = r
  /\ compatible

\* the consume handler: what its callback answers before the first engine call
ConsumeAnswer(c, rid, producerId, compatible) ==
  IF rooms[rid] = NoObj THEN "Room not found"
  ELSE IF getPeer(roomObjs[rooms[rid]], c) = NoObj THEN "Peer not found"
  ELSE IF ~canConsume(rooms[rid], producerId, compatible) THEN "Cannot consume"
  ELSE "ok"

\* the consume handler up to its first media-engine call: createWebRtcTransport
\* when the peer has no recv transport, transport.consume otherwise
Consume(c, rid, producerId, compatible) ==
  /\ connected[c]
  /\ IF ConsumeAnswer(c, rid, producerId, compatible) # "ok" THEN Refused
     ELSE LET pid == getPeer(roomObjs[rooms[rid]], c)
              rcv == peerObjs[pid].recvTransport
          IN /\ CanIssueConsume(IF rcv = NoObj THEN 2 ELSE 1)
             /\ pending' = pending \cup
                  {Suspended(IF rcv = NoObj THEN "consumeTransport" ELSE "consume",
                             c, rid, rooms[rid], pid, "recv", "", rcv, producerId,
                             FreeTag(pending))}
             /\ UNCHANGED <<rooms, roomObjs, peerObjs, handles, sessions,
                            sioRooms, connected, nextId, hist>>

\* consume: createWebRtcTransport resolved; the recv transport is stored and
\* the handler suspends again in transport.consume()
ConsumeTransportResume(p) ==
  /\ p \in pending /\ p.op = "consumeTransport"
  /\ CanCreate(1)
  /\ Commit(1, rooms, roomObjs,
            [peerObjs EXCEPT ![p.peer].recvTransport = Fresh(1)],
            handles @@ (Fresh(1) :> Handle("transport", p.room, p.peer, p.conn, NoObj)),
            sessions,
            (pending \ {p}) \cup {[p EXCEPT !.op = "consume", !.tid = Fresh(1)]},
            hist)
  /\ UNCHANGED <<sioRooms, connected>>

\* transport.consume resolved: store the consumer, callback
ConsumeResume(p) ==
  /\ p \in pending /\ p.op = "consume"
  /\ CanCreateConsumer
  /\ Commit(1, rooms, roomObjs,
            [peerObjs EXCEPT ![p.peer].consumers = @ \cup {Fresh(1)}],
            OnTransport(handles, p.tid, Fresh(1),
                        Handle("consumer", p.room, p.peer, p.conn, p.src)),
            sessions, pending \ {p}, hist)
  /\ UNCHANGED <<sioRooms, connected>>

----------------------------------------------------------------------------
Next ==
  \/ \E c \in Conns, rid \in MainRooms, u \in UserIds : Join(c, rid, u, NoToken, 0)
  \/ \E c \in Conns, rid \in MainRooms, u \in UserIds : JoinSuspend(c, rid, u, NoToken, 0)
  \/ \E p \in pending : JoinResume(p, 0)
  \/ \E p \in pending : JoinFail(p)
  \/ \E c \in Conns, rid \in MainRooms, t \in Conns : PromoteToProducer(c, rid, t)
  \/ \E c \in Conns, rid \in MainRooms, t \in Conns, promote \in BOOLEAN :
        ApproveJoin(c, rid, t, promote)
  \/ \E c \in Conns, rid \in MainRooms, t \in Conns : DemoteToConsumer(c, rid, t)
  \/ \E c \in Conns, rid \in MainRooms : RequestSpeakingPermission(c, rid)
  \/ \E c \in Conns : Disconnect(c)
  \/ \E c \in Conns, rid \in MainRooms, kind \in {"send", "recv"} : CreateTransport(c, rid, kind)
  \/ \E p \in pending : CreateTransportResume(p)
  \/ \E p \in pending : EngineFail(p)
  \/ \E c \in Conns, rid \in MainRooms, t \in Ids : Produce(c, rid, t)
  \/ \E p \in pending : ProduceResume(p)
  \/ \E c \in Conns, rid \in MainRooms, t \in Ids, compatible \in BOOLEAN :
        Consume(c, rid, t, compatible)
  \/ \E p \in pending : ConsumeTransportResume(p)
  \/ \E p \in pending : ConsumeResume(p)

Spec == Init /\ [][Next]_vars

----------------------------------------------------------------------------
(* the media engine answers every call *)

\* the tags of the suspended handlers
Tags == 1..MaxPending

\* the handler of tag t is suspended on a media-engine call
Waiting(t) == \E p \in pending : p.tag = t

\* the media-engine call of the suspended handler of tag t returns, with a
\* result or with an error, and the handler runs on to its next await or to
\* its callback
Returns(t) ==
  \E p \in pending :
    /\ p.tag = t
    /\ \/ JoinResume(p, 0) \/ JoinFail(p)
       \/ CreateTransportResume(p) \/ ProduceResume(p)
       \/ ConsumeTransportResume(p) \/ ConsumeResume(p)
       \/ EngineFail(p)

\* Spec with a media engine that settles every promise it hands out
LiveSpec == Spec /\ \A t \in Tags : WF_vars(Returns(t))

----------------------------------------------------------------------------
(* two rooms side by side *)

\* the socket handlers for requests that name either room: join, the role
\* changes, the send transports, produce and disconnect
RoomsNext ==
  \/ \E c \in Conns, rid \in RoomIds, u \in UserIds : Join(c, rid, u, NoToken, 0)
  \/ \E c \in Conns, rid \in RoomIds, u \in UserIds : JoinSuspend(c, rid, u, NoToken, 0)
  \/ \E p \in pending : JoinResume(p, 0)
  \/ \E p \in pending : JoinFail(p)
  \/ \E c \in Conns, rid \in RoomIds, t \in Conns : PromoteToProducer(c, rid, t)
  \/ \E c \in Conns, rid \in RoomIds, t \in Conns, promote \in BOOLEAN :
        ApproveJoin(c, rid, t, promote)
  \/ \E c \in Conns, rid \in RoomIds, t \in Conns : DemoteToConsumer(c, rid, t)
  \/ \E c \in Conns : Disconnect(c)
  \/ \E c \in Conns, rid \in RoomIds : CreateTransport(c, rid, "send")
  \/ \E p \in pending : CreateTransportResume(p)
  \/ \E p \in pending : EngineFail(p)
  \/ \E c \in Conns, rid \in RoomIds, t \in Ids : Produce(c, rid, t)
  \/ \E p \in pending : ProduceResume(p)

RoomsSpec == Init /\ [][RoomsNext]_vars

----------------------------------------------------------------------------
(* the room lifecycle with invite tokens *)

\* POST /api/rooms at clock reading now, for the room id it derives from the
\* clock: pre-creates the session with an empty host socket id
CreateRoom(rid, now) ==
  /\ ~sessions[rid].exists
  /\ sessions' = createRoomSession(sessions, rid, "", now)
  /\ UNCHANGED <<rooms, roomObjs, peerObjs, handles, sioRooms, connected,
                 pending, nextId, hist>>

\* the inviteToken of the answer of POST /api/rooms
CreateRoomAnswer(rid, now) == createRoomSessionToken(sessions, rid, "", now)

InviteNext ==
  \/ \E rid \in MainRooms, now \in Times : CreateRoom(rid, now)
  \/ \E c \in Conns, rid \in MainRooms, u \in UserIds, tok \in Tokens \cup {NoToken},
         now \in Times : Join(c, rid, u, tok, now)
  \/ \E c \in Conns, rid \in MainRooms, u \in UserIds, tok \in Tokens \cup {NoToken},
         now \in Times : JoinSuspend(c, rid, u, tok, now)
  \/ \E p \in pending, now \in Times : JoinResume(p, now)
  \/ \E p \in pending : JoinFail(p)
  \/ \E c \in Conns : Disconnect(c)

InviteSpec == Init /\ [][InviteNext]_vars

----------------------------------------------------------------------------
(* a close() call of the disconnect handler throws *)

\* the entries of a peer on which the disconnect handler calls close() before
\* it reaches h: the producers, the consumers (each map in insertion order,
\* which is the order of the ids), the send transport, the recv transport
ClosedBefore(p, h) ==
  IF h \in p.producers THEN {x \in p.producers : x < h}
  ELSE IF h \in p.consumers THEN p.producers \cup {x \in p.consumers : x < h}
  ELSE IF h = p.sendTransport THEN p.producers \cup p.consumers
  ELSE (p.producers \cup p.consumers \cup {p.sendTransport}) \ {NoObj}

\* the disconnect handler when an exception leaves it: the peerLeft events it
\* has emitted (it has not reached socket.to(roomId).emit)
DisconnectCloseFailsEvents(c) == {}

\* the process exits on the uncaught exception: the registry, the objects,
\* the media worker's handles, the sessions and the connections are gone
ProcessExit ==
  /\ connected' = [c \in Conns |-> FALSE]
  /\ sioRooms' = [rid \in RoomIds |-> {}]
  /\ Commit(0, [rid \in RoomIds |-> NoObj], <<>>, <<>>, <<>>,
            [rid \in RoomIds |-> NoSession], {},
            [firstPeer |-> <<>>, hostPeers |-> <<>>,
             demotedSend |-> <<>>, staleSend |-> {}])

\* the disconnect handler of socket c when close() throws on the entry h of
\* its peer in room rid: the handler has no try/catch, so the exception
\* leaves it after the closes before h; removePeer, the peerLeft emit and the
\* removal of an emptied room are not reached.  exits: the exception, which
\* nothing catches, ends the process.
DisconnectCloseFails(c, rid, h, exits) ==
  /\ connected[c]
  /\ RoomsOf(c) = {rid}
  /\ h \in peerHandles(peerObjs[roomObjs[rooms[rid]].peers[c]])
  /\ IF exits THEN ProcessExit
     ELSE /\ connected' = [connected EXCEPT ![c] = FALSE]
          /\ sioRooms' = [r \in RoomIds |-> sioRooms[r] \ {c}]
          /\ Commit(0, rooms, roomObjs, peerObjs,
                    closeAll(handles,
                             ClosedBefore(peerObjs[roomObjs[rooms[rid]].peers[c]], h)),
                    sessions, pending, hist)

\* the socket handlers of Spec with a media engine whose close() can throw
FaultNext ==
  \/ Next
  \/ \E c \in Conns, rid \in MainRooms, h \in Ids, exits \in BOOLEAN :
       DisconnectCloseFails(c, rid, h, exits)

FaultSpec == Init /\ [][FaultNext]_vars

----------------------------------------------------------------------------
(* Properties *)

\* rooms.get(roomId) then room.getPeer(socketId): the Peer object of a
\* connection in the registered room (NoObj: no room or no peer)
peerIn(rid, c) ==
  IF rooms[rid] = NoObj THEN NoObj ELSE getPeer(roomObjs[rooms[rid]], c)

\* the Room objects that hold a peer for connection c
RoomsHolding(c) == {r \in DOMAIN roomObjs : roomObjs[r].peers[c] # NoObj}

\* the role of connection c's peer in Room object r
RoleIn(r, c) == peerObjs[roomObjs[r].peers[c]].role

\* C1: At most one peer is ever assigned role host in a room, and it is the
\* first peer admitted: the peers with role host in the Room objects of one
\* room id are of one connection, each Room had at most one host peer, and
\* that peer is the first one added to it.
C1_SingleHost ==
  /\ \A r1, r2 \in DOMAIN roomObjs : \A c1 \in Conns, c2 \in Conns :
       ( /\ roomObjs[r1].id = roomObjs[r2].id
         /\ r1 \in RoomsHolding(c1) /\ RoleIn(r1, c1) = "host"
         /\ r2 \in RoomsHolding(c2) /\ RoleIn(r2, c2) = "host" )
       => c1 = c2
  /\ \A r \in DOMAIN hist.hostPeers :
       /\ Cardinality(hist.hostPeers[r]) <= 1
       /\ hist.hostPeers[r] \subseteq {hist.firstPeer[r]}

\* C2: Once host, a peer stays host until its connection disconnects (a second
\* join on the connection and promote, demote or approve targeting it do not
\* change its role), and no peer with another role becomes host.
C2_HostStaysHost ==
  [][\A c \in Conns : \A r \in RoomsHolding(c) :
       (r \in DOMAIN roomObjs' /\ roomObjs'[r].peers[c] # NoObj)
       => (RoleIn(r, c) = "host" <=> peerObjs'[roomObjs'[r].peers[c]].role = "host")]_vars

\* the role changes of section 4.3
FourTransitions ==
  {<<"waiting", "consumer">>, <<"waiting", "producer">>,
   <<"consumer", "producer">>, <<"producer", "consumer">>}

\* C3: Every change of a peer's role is one of the four transitions, and a
\* host-issued demoteToConsumer, promoteToProducer or approveJoin on a target
\* in another source role answers a failure and leaves the role as it is.
C3_OnlyFourTransitions ==
  [][/\ \A u \in DOMAIN peerObjs \cap DOMAIN peerObjs' :
          peerObjs[u].role # peerObjs'[u].role
          => <<peerObjs[u].role, peerObjs'[u].role>> \in FourTransitions
     /\ \A rid \in RoomIds, c \in Conns, t \in Conns :
          (peerIn(rid, c) # NoObj /\ isHost(roomObjs[rooms[rid]], peerObjs, c)
           /\ peerIn(rid, t) # NoObj)
          => /\ peerObjs[peerIn(rid, t)].role # "producer"
                => (DemoteAnswer(c, rid, t) # "ok" /\ ~DemoteToConsumer(c, rid, t))
             /\ peerObjs[peerIn(rid, t)].role # "consumer"
                => (PromoteAnswer(c, rid, t) # "ok" /\ ~PromoteToProducer(c, rid, t))
             /\ peerObjs[peerIn(rid, t)].role # "waiting"
                => (ApproveAnswer(c, rid, t) # "ok"
                    /\ \A promote \in BOOLEAN : ~ApproveJoin(c, rid, t, promote))]_vars

\* C4: Once the role of a connection's peer in a room has been consumer,
\* producer or host, no step (a repeated join on the connection included)
\* sets it to waiting.
C4_NeverBackToWaiting ==
  [][\A c \in Conns : \A r \in RoomsHolding(c) :
       (RoleIn(r, c) \in {"consumer", "producer", "host"}
        /\ r \in DOMAIN roomObjs' /\ roomObjs'[r].peers[c] # NoObj)
       => peerObjs'[roomObjs'[r].peers[c]].role # "waiting"]_vars

\* connection c has no peer in the registered room rid, or a peer that is
\* neither of role host nor the connection recorded as the room's host
NotHost(rid, c) ==
  /\ rooms[rid] # NoObj
  /\ \/ peerIn(rid, c) = NoObj
     \/ /\ peerObjs[peerIn(rid, c)].role # "host"
        /\ c # roomObjs[rooms[rid]].hostSocketId

\* C5: approveJoin, promoteToProducer and demoteToConsumer issued by a
\* connection that is not host of the room answer the permission-denied
\* error, emit no event, and change nothing.
C5_NonHostDenied ==
  [][\A rid \in RoomIds, c \in Conns, t \in Conns :
       NotHost(rid, c)
       => /\ PromoteAnswer(c, rid, t) = "Only host can approve permissions"
          /\ ApproveAnswer(c, rid, t) = "Only host can approve joining"
          /\ DemoteAnswer(c, rid, t) = "Only host can revoke permissions"
          /\ PromoteEvents(c, rid, t) = {}
          /\ ApproveEvents(c, rid, t) = {}
          /\ DemoteEvents(c, rid, t) = {}
          /\ ~PromoteToProducer(c, rid, t)
          /\ ~DemoteToConsumer(c, rid, t)
          /\ \A promote \in BOOLEAN : ~ApproveJoin(c, rid, t, promote)]_vars

\* C5 happens: a consumer that is not host, in a room whose host is present,
\* so that its promoteToProducer on itself is refused only for want of host rights
C5_Witness ==
  \E rid \in RoomIds, c \in Conns, h \in Conns :
    /\ NotHost(rid, c) /\ peerIn(rid, c) # NoObj
    /\ peerObjs[peerIn(rid, c)].role = "consumer"
    /\ peerIn(rid, h) # NoObj /\ peerObjs[peerIn(rid, h)].role = "host"
    /\ connected[c]

\* C6: A peer of role waiting holds no send transport, no recv transport and
\* no consumer, and no createTransport or consume request of a waiting peer
\* is passed to the media engine.
C6_WaitingHoldsNothing ==
  /\ \A r \in DOMAIN roomObjs, c \in Conns :
       (r \in RoomsHolding(c) /\ RoleIn(r, c) = "waiting")
       => /\ peerObjs[roomObjs[r].peers[c]].sendTransport = NoObj
          /\ peerObjs[roomObjs[r].peers[c]].recvTransport = NoObj
          /\ peerObjs[roomObjs[r].peers[c]].consumers = {}
  /\ \A p \in pending :
       p.op \in {"createTransport", "consumeTransport", "consume"}
       => peerObjs[p.peer].role # "waiting"

\* C7: produce and createTransport(send) issued by a peer of role waiting
\* answer the permission-denied error and pass nothing to the media engine
\* (so no producer, no transport and no newProducer event follow).
C7_WaitingCannotProduce ==
  [][\A rid \in RoomIds, c \in Conns :
       (peerIn(rid, c) # NoObj /\ peerObjs[peerIn(rid, c)].role = "waiting")
       => /\ CreateTransportAnswer(c, rid, "send") = "Permission denied: produce"
          /\ ~CreateTransport(c, rid, "send")
          /\ \A t \in Ids : /\ ProduceAnswer(c, rid, t) = "Permission denied: produce"
                            /\ ~Produce(c, rid, t)]_vars

\* C7 happens: a waiting peer on the connection recorded as the room's host
\* (the host joined again), while handles created for that connection are open
C7_Witness ==
  \E rid \in RoomIds, c \in Conns :
    /\ peerIn(rid, c) # NoObj /\ peerObjs[peerIn(rid, c)].role = "waiting"
    /\ c = roomObjs[rooms[rid]].hostSocketId
    /\ connected[c]
    /\ \E h \in DOMAIN handles : handles[h].conn = c /\ handles[h].kind = "transport"

\* C8: canPeerProduce is true exactly when the peer exists and its role is
\* producer or host.
C8_CanProduceIffRole ==
  \A r \in DOMAIN roomObjs, c \in Conns :
    canPeerProduce(roomObjs[r], peerObjs, c)
    <=> (r \in RoomsHolding(c) /\ RoleIn(r, c) \in {"producer", "host"})

\* C8 happens: a room with a producer, a peer of another role that may not
\* produce, or an absent peer
C8_Witness ==
  \E r \in DOMAIN roomObjs, c \in Conns, d \in Conns :
    /\ r \in RoomsHolding(c) /\ RoleIn(r, c) = "producer"
    /\ canPeerProduce(roomObjs[r], peerObjs, c)
    /\ r \in RoomsHolding(d) /\ RoleIn(r, d) \in {"waiting", "consumer"}
    /\ ~canPeerProduce(roomObjs[r], peerObjs, d)

\* C9: A successful demoteToConsumer of a producer leaves the peer with role
\* consumer, an empty producers map and no send transport, with every
\* producer it held and its send transport closed, and with its recv
\* transport and consumers as they were.
C9_DemoteClosesSendPath ==
  [][\A rid \in RoomIds, c \in Conns, t \in Conns :
       ( /\ peerIn(rid, t) # NoObj
         /\ peerObjs[peerIn(rid, t)].role = "producer"
         /\ DemoteAnswer(c, rid, t) = "ok"
         /\ DemoteToConsumer(c, rid, t) )
       => /\ peerIn(rid, t) \in DOMAIN peerObjs'
          /\ peerObjs'[peerIn(rid, t)].role = "consumer"
          /\ peerObjs'[peerIn(rid, t)].producers = {}
          /\ peerObjs'[peerIn(rid, t)].sendTransport = NoObj
          /\ peerObjs[peerIn(rid, t)].producers \cap DOMAIN handles' = {}
          /\ peerObjs[peerIn(rid, t)].sendTransport \notin DOMAIN handles'
          /\ peerObjs'[peerIn(rid, t)].recvTransport = peerObjs[peerIn(rid, t)].recvTransport
          /\ peerObjs'[peerIn(rid, t)].consumers = peerObjs[peerIn(rid, t)].consumers
          /\ \A h \in {peerObjs[peerIn(rid, t)].recvTransport}
                       \cup peerObjs[peerIn(rid, t)].consumers :
               h \in DOMAIN handles <=> h \in DOMAIN handles']_vars

\* C9 happens: a peer demoted while it held a send transport is a consumer
\* without send transport and producers, its recv transport still open
C9_Witness ==
  \E rid \in RoomIds, c \in Conns :
    /\ peerIn(rid, c) # NoObj
    /\ peerIn(rid, c) \in DOMAIN hist.demotedSend
    /\ hist.demotedSend[peerIn(rid, c)] \notin DOMAIN handles
    /\ peerObjs[peerIn(rid, c)].role = "consumer"
    /\ peerObjs[peerIn(rid, c)].sendTransport = NoObj
    /\ peerObjs[peerIn(rid, c)].producers = {}
    /\ peerObjs[peerIn(rid, c)].recvTransport \in DOMAIN handles

\* C10: After a demotion that closed the peer's send transport, produce
\* naming that transport fails, the peer's send transport is never that one
\* again, and the peer cannot produce on a transport it asked for before the
\* demotion: it has to issue createTransport(send) again.
C10_RenegotiateAfterDemote ==
  \A rid \in RoomIds, c \in Conns :
    (peerIn(rid, c) # NoObj /\ peerIn(rid, c) \in DOMAIN hist.demotedSend)
    => /\ ProduceAnswer(c, rid, hist.demotedSend[peerIn(rid, c)]) # "ok"
       /\ peerObjs[peerIn(rid, c)].sendTransport # hist.demotedSend[peerIn(rid, c)]
       /\ \A t \in hist.staleSend : ProduceAnswer(c, rid, t) # "ok"

\* C11: Two createTransport requests of one kind by one peer with no demotion
\* of the peer in between get the same transport and the media engine is
\* asked for one transport only: no two such requests are suspended in
\* createWebRtcTransport at the same time.
C11_OneEngineCallPerKind ==
  \A p \in pending, q \in pending :
    ( /\ p.op = "createTransport" /\ q.op = "createTransport"
      /\ p.peer = q.peer /\ p.kind = q.kind
      /\ ~p.stale /\ ~q.stale )
    => p = q

\* C12: A join on a connection that already has a peer in the room does not
\* register a peer: as long as the connection has a peer in a Room, it is the
\* same Peer object, never a fresh one put in its place.
C12_DuplicateJoinRefused ==
  [][\A c \in Conns : \A r \in RoomsHolding(c) :
       (r \in DOMAIN roomObjs' /\ roomObjs'[r].peers[c] # NoObj)
       => roomObjs'[r].peers[c] = roomObjs[r].peers[c]]_vars

\* C13: After removePeer the room's peer map has no entry for the connection,
\* every producer, consumer and transport the peer held is closed and the
\* Peer object holds no producer, consumer or transport entry; for a
\* connection without a peer nothing changes.
C13_RemovePeerClears ==
  [][\A c \in Conns :
       /\ \A r \in RoomsHolding(c) :
            (r \notin DOMAIN roomObjs' \/ roomObjs'[r].peers[c] = NoObj)
            => /\ peerHandles(peerObjs[roomObjs[r].peers[c]]) \cap DOMAIN handles' = {}
               /\ roomObjs[r].peers[c] \in DOMAIN peerObjs'
                  => peerHandles(peerObjs'[roomObjs[r].peers[c]]) = {}
       /\ (RoomsHolding(c) = {} /\ Disconnect(c))
          => UNCHANGED <<rooms, roomObjs, peerObjs, handles>>]_vars

\* C14: A disconnect that removes the last peer of a registered room leaves
\* the room id out of the registry, the room's router closed and no invite
\* session for the room id; a disconnect that leaves a peer in the room keeps
\* the room registered, its router open and its session as it was.
C14_LastDisconnectDeletesRoom ==
  [][\A c \in Conns, rid \in RoomIds :
       (peerIn(rid, c) # NoObj /\ Disconnect(c))
       => IF \A d \in Conns \ {c} : peerIn(rid, d) = NoObj
          THEN /\ rooms'[rid] = NoObj
               /\ ~sessions'[rid].exists
               /\ rooms[rid] \in DOMAIN roomObjs' => roomObjs'[rooms[rid]].routerClosed
          ELSE /\ rooms'[rid] = rooms[rid]
               /\ sessions'[rid] = sessions[rid]
               /\ roomObjs'[rooms[rid]].routerClosed = roomObjs[rooms[rid]].routerClosed
               /\ roomObjs'[rooms[rid]].peers[c] = NoObj]_vars

\* C14 happens: after the disconnect of its last peer a room is out of the
\* registry, without session, and its Room object (still held by a
\* suspended handler) has its router closed
C14_Witness ==
  \E rid \in RoomIds, r \in DOMAIN roomObjs, c \in Conns :
    /\ ~connected[c]
    /\ rooms[rid] = NoObj /\ ~sessions[rid].exists
    /\ roomObjs[r].id = rid /\ roomObjs[r].routerClosed /\ isEmpty(roomObjs[r])

C16_VerifyFailsClosed ==
  /\ \A tok \in Tokens \cup {NoToken}, now \in Times :
       LET v == verifyInviteToken(tok, now)
       IN /\ v \in [roomId : TokenRooms \cup {""}, valid : BOOLEAN]
          /\ (now >= tok.exp \/ tok \in Tampered \cup Forged \cup {NoToken})
             => v = [roomId |-> "", valid |-> FALSE]
          /\ (tok \in Minted /\ now < tok.exp)
             => v = [roomId |-> tok.roomId, valid |-> TRUE]
          /\ v.valid => (tok \in Minted /\ now < tok.exp /\ v.roomId = tok.roomId)
  /\ \A rid \in RoomIds :
       sessions[rid].exists
       => /\ sessions[rid].inviteToken \in Minted
          /\ \A now \in Times :
               verifyInviteToken(sessions[rid].inviteToken, now).valid
               <=> now < sessions[rid].createdAt + INVITE_TOKEN_EXPIRY

\* C16 happens: a session holds a minted token, and there are clock readings
\* at which it verifies and at which it has expired
C16_Witness ==
  \E rid \in RoomIds :
    /\ sessions[rid].exists
    /\ \E t1 \in Times, t2 \in Times :
         /\ sessions[rid].createdAt <= t1 /\ t1 < t2
         /\ verifyInviteToken(sessions[rid].inviteToken, t1) = [roomId |-> rid, valid |-> TRUE]
         /\ verifyInviteToken(sessions[rid].inviteToken, t2) = [roomId |-> "", valid |-> FALSE]

\* an invite token that is expired at clock reading now, was altered or
\* signed with another key, or is bound to another room than rid
BadToken(rid, tok, now) ==
  tok # NoToken
  /\ (now >= tok.exp \/ tok \in Tampered \cup Forged \/ tok.roomId # rid)

\* C17: A join carrying an invite token that is invalid, expired or bound to
\* another room id than the requested one is answered with the error
\* "Invalid or expired invite token" and changes nothing: the registry, the
\* Room and Peer objects, the session store and the socket.io rooms stay as
\* they are and no handler is left suspended (the events of join are emitted
\* only after a peer was added, so nothing is emitted).
C17_BadTokenJoinChangesNothing ==
  /\ [](\A rid \in RoomIds, tok \in Tokens, now \in Times :
          BadToken(rid, tok, now)
          => JoinAnswer(rid, tok, now) = "Invalid or expired invite token")
  /\ [][\/ UNCHANGED vars
        \/ \A rid \in RoomIds, tok \in Tokens, now \in Times :
             BadToken(rid, tok, now)
             => \A c \in Conns, u \in UserIds :
                  ~(Join(c, rid, u, tok, now) \/ JoinSuspend(c, rid, u, tok, now))]_vars

\* C17 happens: a connected client can send a join for a registered room
\* that holds a peer, with the expired token of the room's session, with a
\* token of another room and with a token signed with another key
C17_Witness ==
  \E rid \in RoomIds, c \in Conns, d \in Conns, now \in Times :
    /\ connected[c] /\ c # d
    /\ peerIn(rid, d) # NoObj /\ peerIn(rid, c) = NoObj
    /\ sessions[rid].exists
    /\ now >= sessions[rid].inviteToken.exp
    /\ BadToken(rid, sessions[rid].inviteToken, now)
    /\ BadToken(rid, generateInviteToken(OtherRoom, now), now)
    /\ \E tok \in Forged : tok.roomId = rid /\ now < tok.exp /\ BadToken(rid, tok, now)

\* C18: Whatever the session store and the registry hold, a token minted for
\* a room verifies, and a join carrying it passes the token check, at every
\* clock reading from its minting until its expiry: also when the room has
\* no session or another token is stored, and however many peers joined.  A
\* connected client that sends it for an unregistered room starts the
\* creation of the room.
C18_TokenValidityIgnoresStore ==
  \A rid \in RoomIds, t \in Times, now \in Times :
    LET tok == generateInviteToken(rid, t)
    IN (t <= now /\ now < tok.exp)
       => /\ verifyInviteToken(tok, now) = [roomId |-> rid, valid |-> TRUE]
          /\ JoinAnswer(rid, tok, now) = "ok"
          /\ \A c \in Conns, u \in UserIds :
               (connected[c] /\ rooms[rid] = NoObj /\ CanIssue(2))
               => ENABLED (JoinSuspend(c, rid, u, tok, now) /\ pending' # pending)
          /\ \A c \in Conns, u \in UserIds :
               (connected[c] /\ rooms[rid] # NoObj /\ CanIssue(1))
               => ENABLED (Join(c, rid, u, tok, now) /\ peerObjs' # peerObjs)

\* C18 happens: a room was created and deleted with its session, a client is
\* still connected, and a token minted for the room has not expired
C18_Witness ==
  \E rid \in RoomIds, c \in Conns, d \in Conns :
    /\ nextId > 1 /\ rooms[rid] = NoObj /\ ~sessions[rid].exists
    /\ ~connected[c] /\ connected[d] /\ CanIssue(2)
    /\ \E t \in Times, now \in Times :
         /\ t <= now
         /\ JoinAnswer(rid, generateInviteToken(rid, t), now) = "ok"

\* C19: createRoomSession for a room id that has a session returns the token
\* stored in it and leaves the stored session as it is, and no step replaces
\* the session of a room id by another one: in particular the first join to
\* a room whose session POST /api/rooms created keeps that session and token.
C19_CreateSessionKeepsExisting ==
  [][\A rid \in RoomIds :
       (sessions[rid].exists /\ sessions'[rid].exists)
       => /\ sessions'[rid] = sessions[rid]
          /\ \A p \in pending, now \in Times :
               (p.op = "join" /\ p.rid = rid /\ JoinResume(p, now))
               => createRoomSessionToken(sessions, rid, p.conn, now)
                    = sessions[rid].inviteToken]_vars

\* no request is in progress, A and B are connected, A is host of the
\* registered room rid, and B is not in it (roleB = "none") or has role roleB
Scene(rid, A, B, roleB) ==
  /\ pending = {}
  /\ connected[A] /\ connected[B]
  /\ peerIn(rid, A) # NoObj /\ peerObjs[peerIn(rid, A)].role = "host"
  /\ IF roleB = "none" THEN peerIn(rid, B) = NoObj
     ELSE peerIn(rid, B) # NoObj /\ peerObjs[peerIn(rid, B)].role = roleB

\* an event of name ev about peer `about` delivered to connection `to`
Ev(to, ev, about) == [to |-> to, ev |-> ev, peerId |-> about]

\* C20: The scenario, each request completing before the next starts.  A
\* joins the unregistered room rid and is host; B joins and is waiting, and
\* A receives joinRequest for B; A approves B with promote = FALSE, B is
\* consumer and receives joinApproved with promote FALSE; B requests speaking
\* permission and A receives speakingPermissionRequest; A promotes B, B is
\* producer and receives promotedToProducer, and the room (B) receives
\* peerPromoted; A demotes B, B's producers and send transport are closed and
\* B is consumer; B disconnects and the room has exactly one peer; A
\* disconnects and rid is no longer registered.
C20_Scenario ==
  [][\A rid \in RoomIds, A \in Conns, B \in Conns, u \in UserIds :
       A # B =>
       \* A joins the empty room: ensureRoom suspends, then the join completes
       /\ \A p \in pending :
            ( /\ pending = {p} /\ p.op = "join" /\ p.conn = A /\ p.rid = rid
              /\ rooms[rid] = NoObj /\ connected[A] /\ connected[B]
              /\ JoinResume(p, 0) )
            => Scene(rid, A, B, "none")'
       \* B joins
       /\ (Scene(rid, A, B, "none") /\ Join(B, rid, u, NoToken, 0))
          => /\ JoinAnswer(rid, NoToken, 0) = "ok"
             /\ Scene(rid, A, B, "waiting")'
             /\ Ev(A, "joinRequest", B)
                  \in JoinEvents(B, rid, roomObjs'[rooms'[rid]], peerObjs', "waiting")
       \* A approves B with promote = FALSE
       /\ (Scene(rid, A, B, "waiting") /\ ApproveJoin(A, rid, B, FALSE))
          => /\ ApproveAnswer(A, rid, B) = "ok"
             /\ Scene(rid, A, B, "consumer")'
             /\ Ev(B, "joinApproved", B) \in ApproveEvents(A, rid, B)
             /\ JoinApprovedPromote(FALSE) = FALSE
       \* B requests speaking permission
       /\ Scene(rid, A, B, "consumer")
          => /\ RequestAnswer(B, rid) = "ok"
             /\ Ev(A, "speakingPermissionRequest", B) \in RequestEvents(B, rid)
       \* A promotes B
       /\ (Scene(rid, A, B, "consumer") /\ PromoteToProducer(A, rid, B))
          => /\ PromoteAnswer(A, rid, B) = "ok"
             /\ Scene(rid, A, B, "producer")'
             /\ Ev(B, "promotedToProducer", B) \in PromoteEvents(A, rid, B)
             /\ Ev(B, "peerPromoted", B) \in PromoteEvents(A, rid, B)
       \* A demotes B
       /\ (Scene(rid, A, B, "producer") /\ DemoteToConsumer(A, rid, B))
          => /\ DemoteAnswer(A, rid, B) = "ok"
             /\ Scene(rid, A, B, "consumer")'
             /\ LET pb == peerObjs[peerIn(rid, B)]
                IN /\ pb.producers \cap DOMAIN handles' = {}
                   /\ pb.sendTransport \notin DOMAIN handles'
       \* B disconnects
       /\ (Scene(rid, A, B, "consumer") /\ Disconnect(B))
          => /\ rooms'[rid] = rooms[rid]
             /\ getPeerCount(roomObjs'[rooms'[rid]]) = 1
             /\ peerIn(rid, A)' = peerIn(rid, A)
       \* A disconnects
       /\ ( /\ pending = {} /\ connected[A] /\ ~connected[B]
            /\ peerIn(rid, A) # NoObj /\ peerIn(rid, B) = NoObj
            /\ Disconnect(A) )
          => rooms'[rid] = NoObj]_vars

\* C20 happens: the end of the scenario, after one Room object and two Peer
\* objects: both clients are gone, and the room and its session with them
C20_Witness ==
  \E rid \in RoomIds :
    /\ \A c \in Conns : ~connected[c]
    /\ rooms[rid] = NoObj /\ ~sessions[rid].exists
    /\ pending = {} /\ sioRooms[rid] = {}
    /\ nextId = 4 /\ roomObjs = <<>> /\ peerObjs = <<>>

\* C21: In every reachable state, every registered room that holds at least
\* one peer holds exactly one peer for which isHost is true.
C21_ExactlyOneHost ==
  \A rid \in RoomIds :
    (rooms[rid] # NoObj /\ getPeerCount(roomObjs[rooms[rid]]) >= 1)
    => Cardinality({c \in Conns : isHost(roomObjs[rooms[rid]], peerObjs, c)}) = 1

\* the role of connection c's peer in Room object r after the step
RoleAfter(r, c) == peerObjs'[roomObjs'[r].peers[c]].role

\* the joinRequest events among the events of a join of connection c that
\* left the Room object r and the Peer objects as they are after the step
JoinRequests(c, rid, r) ==
  {e \in JoinEvents(c, rid, roomObjs'[r], peerObjs', RoleAfter(r, c)) :
     e.ev = "joinRequest"}

\* C22: Every join that is assigned role waiting sends one joinRequest about
\* the joiner, to the connection of the room's host and to no other; a join
\* that is assigned role host sends no joinRequest.
C22_JoinRequestToHost ==
  [][\A c \in Conns, rid \in RoomIds, u \in UserIds :
       /\ (Join(c, rid, u, NoToken, 0) /\ JoinAnswer(rid, NoToken, 0) = "ok")
          => IF RoleAfter(rooms[rid], c) = "waiting"
             THEN \E h \in Conns :
                    /\ isHost(roomObjs'[rooms[rid]], peerObjs', h)
                    /\ JoinRequests(c, rid, rooms[rid]) = {Ev(h, "joinRequest", c)}
             ELSE JoinRequests(c, rid, rooms[rid]) = {}
       /\ \A p \in pending :
            (p.op = "join" /\ p.conn = c /\ p.rid = rid /\ JoinResume(p, 0))
            => /\ RoleAfter(rooms'[rid], c) = "host"
               /\ JoinRequests(c, rid, rooms'[rid]) = {}]_vars

\* C23: A requestSpeakingPermission, accepted or denied, leaves the registry,
\* every peer's role, producers, consumers and transports, and everything
\* else as it is; the role of a connection's peer changes from consumer to
\* producer only in a promoteToProducer step issued for it by a connected
\* host of its room.
C23_RequestChangesNothing ==
  [][/\ \A c \in Conns, rid \in RoomIds :
          RequestSpeakingPermission(c, rid) => UNCHANGED vars
     /\ \A c \in Conns : \A r \in RoomsHolding(c) :
          ( /\ RoleIn(r, c) = "consumer"
            /\ r \in DOMAIN roomObjs' /\ roomObjs'[r].peers[c] # NoObj
            /\ RoleAfter(r, c) = "producer" )
          => \E h \in Conns, rid \in RoomIds :
               /\ rooms[rid] = r /\ connected[h]
               /\ isHost(roomObjs[r], peerObjs, h)
               /\ PromoteAnswer(h, rid, c) = "ok"
               /\ PromoteToProducer(h, rid, c)]_vars

\* C23 happens: a consumer whose request for speaking permission is accepted
\* and notifies the host, next to a host whose request is denied
C23_Witness ==
  \E rid \in RoomIds, c \in Conns, h \in Conns :
    /\ connected[c] /\ connected[h]
    /\ peerIn(rid, c) # NoObj /\ peerObjs[peerIn(rid, c)].role = "consumer"
    /\ RequestAnswer(c, rid) = "ok"
    /\ RequestEvents(c, rid) = {Ev(h, "speakingPermissionRequest", c)}
    /\ RequestAnswer(h, rid) = "Already have speaking permission"

\* C24: In a registered room all of whose peers are of connected sockets, a
\* requestSpeakingPermission of a peer with role producer or host is
\* answered with an error and emits nothing; of a peer with role waiting or
\* consumer it is answered with success and emits one
\* speakingPermissionRequest about the requester, to the connection of the
\* room's host.
C24_RequestNotifiesHost ==
  \A rid \in RoomIds, c \in Conns :
    ( /\ peerIn(rid, c) # NoObj
      /\ \A d \in Conns : peerIn(rid, d) # NoObj => connected[d] )
    => IF peerObjs[peerIn(rid, c)].role \in {"producer", "host"}
       THEN /\ RequestAnswer(c, rid) = "Already have speaking permission"
            /\ RequestEvents(c, rid) = {}
       ELSE /\ RequestAnswer(c, rid) = "ok"
            /\ \E h \in Conns :
                 /\ isHost(roomObjs[rooms[rid]], peerObjs, h)
                 /\ RequestEvents(c, rid) = {Ev(h, "speakingPermissionRequest", c)}

\* the events named ev in a set of events
Named(evs, ev) == {e \in evs : e.ev = ev}

\* C25: A successful promoteToProducer, demoteToConsumer or approveJoin for
\* a peer of a connected socket emits its direct event (promotedToProducer,
\* demotedToConsumer, joinApproved) for that peer's connection and no other,
\* its broadcast (peerPromoted, peerDemoted, peerApproved) for exactly the
\* connections in the socket.io room other than the caller, and nothing
\* else; a failed one emits nothing.
C25_RoleChangeEvents ==
  \A c \in Conns, rid \in RoomIds, t \in Conns :
    LET Case(answer, evs, direct, bcast) ==
          IF answer = "ok"
          THEN /\ connected[t] => Named(evs, direct) = {Ev(t, direct, t)}
               /\ Named(evs, bcast) = {Ev(d, bcast, t) : d \in sioRooms[rid] \ {c}}
               /\ evs = Named(evs, direct) \cup Named(evs, bcast)
          ELSE evs = {}
    IN connected[c]
       => /\ Case(PromoteAnswer(c, rid, t), PromoteEvents(c, rid, t),
                  "promotedToProducer", "peerPromoted")
          /\ Case(DemoteAnswer(c, rid, t), DemoteEvents(c, rid, t),
                  "demotedToConsumer", "peerDemoted")
          /\ Case(ApproveAnswer(c, rid, t), ApproveEvents(c, rid, t),
                  "joinApproved", "peerApproved")

\* C25 happens: a connected host can demote a connected producer (and its
\* promoteToProducer for that peer fails), with both in the socket.io room
C25_Witness ==
  \E c \in Conns, rid \in RoomIds, t \in Conns :
    /\ connected[c] /\ connected[t] /\ {c, t} \subseteq sioRooms[rid]
    /\ DemoteAnswer(c, rid, t) = "ok"
    /\ peerObjs[peerIn(rid, t)].role = "producer"
    /\ PromoteAnswer(c, rid, t) = "Peer is already a producer or host"
    /\ DemoteEvents(c, rid, t)
         = {Ev(t, "demotedToConsumer", t), Ev(t, "peerDemoted", t)}

RoomObjsOf(X) == {r \in DOMAIN roomObjs : roomObjs[r].id = X}

\* the Peer objects of room id X: in the peer map of one of its Room objects,
\* or held by a suspended request that names X
PeersOf(X) ==
  {u \in DOMAIN peerObjs :
     \/ \E r \in RoomObjsOf(X), c \in Conns : roomObjs[r].peers[c] = u
     \/ \E p \in pending : p.rid = X /\ p.peer = u}

\* everything the server holds for room id X: registry entry, Room objects,
\* Peer objects with their roles, producers, consumers and transports, open
\* handles, socket.io room, session and suspended requests
RoomState(X) ==
  [registered |-> rooms[X],
   objs       |-> [r \in RoomObjsOf(X) |-> roomObjs[r]],
   peers      |-> [u \in PeersOf(X) |-> peerObjs[u]],
   open       |-> {h \in DOMAIN handles : handles[h].room \in RoomObjsOf(X)},
   members    |-> sioRooms[X],
   session    |-> sessions[X],
   suspended  |-> {p \in pending : p.rid = X}]

\* what the server answers and emits for every request that names room X
Responses(X) ==
  [c \in Conns, t \in Conns |->
     <<PromoteAnswer(c, X, t), PromoteEvents(c, X, t),
       ApproveAnswer(c, X, t), ApproveEvents(c, X, t),
       DemoteAnswer(c, X, t), DemoteEvents(c, X, t),
       RequestAnswer(c, X), RequestEvents(c, X),
       CreateTransportAnswer(c, X, "send"), CreateTransportAnswer(c, X, "recv"),
       [i \in Ids |-> ProduceAnswer(c, X, i)],
       [i \in Ids |-> ConsumeAnswer(c, X, i, TRUE)]>>]

\* the step is the handling of a request that names room Y, or the
\* continuation of one after its media-engine call returned
Names(Y) ==
  \/ \E c \in Conns, u \in UserIds :
       Join(c, Y, u, NoToken, 0) \/ JoinSuspend(c, Y, u, NoToken, 0)
  \/ \E c \in Conns, t \in Conns :
       \/ PromoteToProducer(c, Y, t) \/ DemoteToConsumer(c, Y, t)
       \/ \E promote \in BOOLEAN : ApproveJoin(c, Y, t, promote)
  \/ \E c \in Conns, kind \in {"send", "recv"} : CreateTransport(c, Y, kind)
  \/ \E c \in Conns, t \in Ids : Produce(c, Y, t)
  \/ \E p \in pending :
       /\ p.rid = Y
       /\ \/ JoinResume(p, 0) \/ JoinFail(p) \/ CreateTransportResume(p)
          \/ ProduceResume(p) \/ EngineFail(p)

\* connection c is host of the registered room rid
HostOf(rid, c) == rooms[rid] # NoObj /\ isHost(roomObjs[rooms[rid]], peerObjs, c)

C28_SameUserJoinsTwice ==
  [][\A c \in Conns, d \in Conns, rid \in RoomIds, u \in UserIds :
       ( /\ c # d
         /\ peerIn(rid, d) # NoObj /\ peerObjs[peerIn(rid, d)].userId = u
         /\ peerIn(rid, c) = NoObj
         /\ Join(c, rid, u, NoToken, 0) )
       => /\ rooms'[rid] = rooms[rid]
          /\ peerIn(rid, d)' = peerIn(rid, d)
          /\ peerObjs'[peerIn(rid, d)] = peerObjs[peerIn(rid, d)]
          /\ handles' = handles
          /\ d \in sioRooms[rid] => d \in sioRooms'[rid]
          /\ peerIn(rid, c)' \notin {NoObj, peerIn(rid, d)}
          /\ peerIn(rid, c)' \notin DOMAIN peerObjs
          /\ peerObjs'[peerIn(rid, c)'] = NewPeer(c, u, "waiting")
          /\ c \in sioRooms'[rid]]_vars

\* C28 happens: two connections have a peer of the same userId in one room,
\* the first holding a transport and the second waiting
C28_Witness ==
  \E c \in Conns, d \in Conns, rid \in RoomIds :
    /\ c # d /\ connected[c] /\ connected[d]
    /\ peerIn(rid, c) # NoObj /\ peerIn(rid, d) # NoObj
    /\ peerObjs[peerIn(rid, c)].userId = peerObjs[peerIn(rid, d)].userId
    /\ peerObjs[peerIn(rid, d)].sendTransport \in DOMAIN handles
    /\ peerObjs[peerIn(rid, c)] = NewPeer(c, peerObjs[peerIn(rid, d)].userId, "waiting")

\* C29: When the join of one connection resumes from room creation while
\* another connection already is a peer of the registered room of that id,
\* the resumed join adds its peer to that same registered Room with role
\* waiting, next to the other peer, and no second Room (router) comes to
\* exist for the room id.
C29_RacingJoinsShareRoom ==
  [][\A q \in pending, c \in Conns :
       ( /\ q.op = "join" /\ q.conn # c
         /\ peerIn(q.rid, c) # NoObj
         /\ JoinResume(q, 0) )
       => /\ rooms'[q.rid] = rooms[q.rid]
          /\ DOMAIN roomObjs' = DOMAIN roomObjs
          /\ peerIn(q.rid, c)' = peerIn(q.rid, c)
          /\ peerIn(q.rid, q.conn)' # NoObj
          /\ RoleAfter(rooms[q.rid], q.conn) = "waiting"
          /\ RoleAfter(rooms[q.rid], c) = RoleIn(rooms[q.rid], c)]_vars

\* C30: In every reachable state a peer of role waiting or consumer has an
\* empty producers map, and a produce request that resumes from
\* transport.produce() stores its producer and broadcasts newProducer only
\* for a peer that is producer or host at that moment.
C30_ProducePermissionAtEffect ==
  [][/\ \A p \in pending :
          (p.op = "produce" /\ ProduceResume(p))
          => peerObjs[p.peer].role \in {"producer", "host"}
     /\ \A c \in Conns : \A r \in DOMAIN roomObjs' :
          ( /\ roomObjs'[r].peers[c] # NoObj
            /\ RoleAfter(r, c) \in {"waiting", "consumer"} )
          => peerObjs'[roomObjs'[r].peers[c]].producers = {}]_vars

\* C31: In every reachable state a peer of role waiting or consumer holds no
\* send transport, also when the host demotes the peer while its
\* createTransport(send) request is suspended in createWebRtcTransport.
C31_NoSendTransportWithoutRole ==
  \A c \in Conns : \A r \in RoomsHolding(c) :
    RoleIn(r, c) \in {"waiting", "consumer"}
    => peerObjs[roomObjs[r].peers[c]].sendTransport = NoObj

\* the open transports the media engine created for the Peer object pid
TransportsOf(pid) ==
  {h \in DOMAIN handles : handles[h].kind = "transport" /\ handles[h].owner = pid}

\* C32: While a peer is in its room, every open transport created for it is
\* the one in its send slot or the one in its recv slot (so it has at most
\* one open send and one open recv transport), also with several
\* createTransport or consume requests of the peer in flight.
C32_OpenTransportsAreTheSlots ==
  \A c \in Conns : \A r \in RoomsHolding(c) :
    TransportsOf(roomObjs[r].peers[c])
      \subseteq {peerObjs[roomObjs[r].peers[c]].sendTransport,
                 peerObjs[roomObjs[r].peers[c]].recvTransport}

\* C33: A Room object that holds a peer is the Room registered under its id,
\* and a registered Room holds a peer (between its creation and the addPeer
\* of the join that created it no other handler runs), also when joins are
\* interleaved at their awaits with each other or with a disconnect.
C33_PeersOnlyInRegisteredRoom ==
  /\ \A r \in DOMAIN roomObjs :
       ~isEmpty(roomObjs[r]) => rooms[roomObjs[r].id] = r
  /\ \A rid \in RoomIds :
       rooms[rid] # NoObj => ~isEmpty(roomObjs[rooms[rid]])

\* every connection has disconnected and no handler is suspended: no handler
\* will run any more
Quiescent == (\A c \in Conns : ~connected[c]) /\ pending = {}

\* C34: The router of a Room is closed exactly once: Room.close, which the
\* server invokes on registered Rooms only, never finds a Room whose router
\* is closed; a Room whose router is closed has no peers; and once all
\* connections have disconnected and their requests have finished, the router
\* of every Room that was created is closed.
C34_RouterClosedExactlyOnce ==
  /\ \A rid \in RoomIds :
       rooms[rid] # NoObj => ~roomObjs[rooms[rid]].routerClosed
  /\ \A r \in DOMAIN roomObjs :
       roomObjs[r].routerClosed => isEmpty(roomObjs[r])
  /\ Quiescent => \A r \in DOMAIN roomObjs : roomObjs[r].routerClosed

\* the approveJoin handler: the existingProducers of the joinApproved event
JoinApprovedProducers(rid, peerId) ==
  getAllProducersForPeer(roomObjs[rooms[rid]], peerObjs, peerId)

\* C35: approveJoin by the host on a waiting peer makes it consumer (promote
\* false) or producer (promote true) in one step, and sends the peer
\* joinApproved with that promote flag and with the producers of all other
\* peers of the room, none of them the peer's own; approveJoin on a peer that
\* is not waiting fails, changes no role and emits nothing.
C35_ApproveJoin ==
  /\ [](\A rid \in RoomIds, c \in Conns, t \in Conns :
          (HostOf(rid, c) /\ peerIn(rid, t) # NoObj)
          => IF peerObjs[peerIn(rid, t)].role = "waiting"
             THEN /\ ApproveAnswer(c, rid, t) = "ok"
                  /\ connected[t]
                     => Named(ApproveEvents(c, rid, t), "joinApproved")
                          = {Ev(t, "joinApproved", t)}
                  /\ \A promote \in BOOLEAN : JoinApprovedPromote(promote) = promote
                  /\ \A x \in Ids :
                       x \in JoinApprovedProducers(rid, t)
                       <=> \E d \in Conns \ {t} :
                             /\ peerIn(rid, d) # NoObj
                             /\ x \in peerObjs[peerIn(rid, d)].producers
                  /\ JoinApprovedProducers(rid, t)
                       \cap peerObjs[peerIn(rid, t)].producers = {}
                  /\ \A x \in JoinApprovedProducers(rid, t) \cap DOMAIN handles :
                       /\ handles[x].kind = "producer"
                       /\ handles[x].room = rooms[rid]
                       /\ handles[x].owner # peerIn(rid, t)
             ELSE /\ ApproveAnswer(c, rid, t) = "Peer is not waiting"
                  /\ ApproveEvents(c, rid, t) = {})
  /\ [][UNCHANGED vars
        \/ \A rid \in RoomIds, c \in Conns, t \in Conns, promote \in BOOLEAN :
             (HostOf(rid, c) /\ peerIn(rid, t) # NoObj /\ ApproveJoin(c, rid, t, promote))
             => IF peerObjs[peerIn(rid, t)].role = "waiting"
                THEN /\ peerObjs' = [peerObjs EXCEPT ![peerIn(rid, t)].role =
                                       IF promote THEN "producer" ELSE "consumer"]
                     /\ UNCHANGED <<rooms, roomObjs, handles, sessions, pending>>
                ELSE UNCHANGED vars]_vars

\* C35 happens: the host holds a producer and a second, connected peer has
\* been approved with promote and is producer, before it asked for a transport
C35_Witness ==
  \E rid \in RoomIds, c \in Conns, t \in Conns :
    /\ c # t /\ HostOf(rid, c) /\ peerIn(rid, t) # NoObj /\ connected[t]
    /\ peerObjs[peerIn(rid, t)].role = "producer"
    /\ peerObjs[peerIn(rid, t)].sendTransport = NoObj
    /\ JoinApprovedProducers(rid, t) # {}
    /\ JoinApprovedProducers(rid, t) \subseteq DOMAIN handles
    /\ ApproveAnswer(c, rid, t) = "Peer is not waiting"

\* C36: When close() fails on one of the producers, consumers or transports
\* of a disconnecting peer, the other entries of the peer are closed all the
\* same, the peer is removed from its room, peerLeft goes to the rest of the
\* socket.io room, and a room left empty is unregistered together with its
\* invite session.
C36_CloseFailureNotPropagated ==
  [][\A c \in Conns, rid \in MainRooms, h \in Ids, exits \in BOOLEAN :
       DisconnectCloseFails(c, rid, h, exits)
       => /\ (peerHandles(peerObjs[peerIn(rid, c)]) \ {h}) \cap DOMAIN handles' = {}
          /\ rooms'[rid] # NoObj => roomObjs'[rooms'[rid]].peers[c] = NoObj
          /\ DisconnectCloseFailsEvents(c) = DisconnectEvents(c)
          /\ isEmpty(removePeer(roomObjs[rooms[rid]], c))
             => rooms'[rid] = NoObj /\ ~sessions'[rid].exists]_vars

\* the socket has disconnected and none of its requests is suspended
Gone(c) == ~connected[c] /\ \A p \in pending : p.conn # c

\* C37: Once a connection has disconnected and its requests in flight have
\* finished, no peer map of any Room holds a peer for it, also when the
\* disconnect came while its join was suspended in the room creation.
C37_NoPeerAfterDisconnect ==
  \A c \in Conns :
    Gone(c) => \A r \in DOMAIN roomObjs : roomObjs[r].peers[c] = NoObj

\* the handles created for the socket that are open: not closed by a close()
\* call, on a Room whose router has not been closed (a Room object that has
\* been dropped is one that was closed)
OpenFor(c) ==
  {h \in DOMAIN handles :
     /\ handles[h].conn = c
     /\ handles[h].room \in DOMAIN roomObjs
     /\ ~roomObjs[handles[h].room].routerClosed}

\* C38: Once a connection has disconnected and its requests in flight have
\* finished, every transport, producer and consumer the media engine created
\* for it is closed, also those whose creation was suspended on the media
\* engine when the disconnect was handled.
C38_NoOpenHandleAfterDisconnect ==
  \A c \in Conns : Gone(c) => OpenFor(c) = {}

\* C39: Every room id of the registry has a session in the invite session
\* store, whatever the interleaving of POST /api/rooms, joins (with their
\* suspended room creations) and disconnects.
C39_RegisteredRoomHasSession ==
  \A rid \in RoomIds : rooms[rid] # NoObj => sessions[rid].exists

\* C39 happens: a room is registered again, with a session created by the
\* join of a connected socket at a later clock reading, after the disconnect
\* of another socket
C39_Witness ==
  \E rid \in RoomIds, c \in Conns, d \in Conns :
    /\ ~connected[c] /\ connected[d]
    /\ rooms[rid] # NoObj /\ roomObjs[rooms[rid]].peers[d] # NoObj
    /\ sessions[rid].exists
    /\ sessions[rid].hostSocketId = d
    /\ sessions[rid].createdAt > 0

\* the step closes the producers of the peers of socket t: its disconnect, or
\* a demoteToConsumer for it that the host is allowed
ClosesProducersOf(t) ==
  \/ Disconnect(t)
  \/ \E c \in Conns, rid \in RoomIds :
       DemoteAnswer(c, rid, t) = "ok" /\ DemoteToConsumer(c, rid, t)

\* C40: A demoteToConsumer for a peer, or that peer's disconnect, leaves the
\* Peer objects of all other sockets as they are (role, transports, consumers
\* map) and closes none of their transports and consumers, so the consumers
\* other peers hold for the closed producers stay, open, in their maps; and
\* no step takes an entry out of the consumers map of a Peer object.
C40_OtherPeersUntouched ==
  [][UNCHANGED vars
     \/ /\ \A t \in Conns :
             ClosesProducersOf(t)
             => \A u \in DOMAIN peerObjs :
                  peerObjs[u].id # t
                  => /\ u \in DOMAIN peerObjs'
                     /\ peerObjs'[u].consumers = peerObjs[u].consumers
                     /\ peerObjs'[u].sendTransport = peerObjs[u].sendTransport
                     /\ peerObjs'[u].recvTransport = peerObjs[u].recvTransport
                     /\ peerObjs'[u].role = peerObjs[u].role
                     /\ (peerHandles(peerObjs[u]) \cap DOMAIN handles)
                          \subseteq DOMAIN handles'
        /\ \A u \in DOMAIN peerObjs \cap DOMAIN peerObjs' :
             peerObjs[u].consumers \subseteq peerObjs'[u].consumers]_vars

\* C40 happens: a peer has been demoted, which closed its send transport and
\* its producer, and the peer of another, connected socket still holds an
\* open consumer of that closed producer
C40_Witness ==
  \E rid \in RoomIds, t \in Conns, d \in Conns :
    /\ d # t /\ connected[d]
    /\ peerIn(rid, t) # NoObj /\ peerIn(rid, d) # NoObj
    /\ peerIn(rid, t) \in DOMAIN hist.demotedSend
    /\ peerObjs[peerIn(rid, t)].role = "consumer"
    /\ \E x \in peerObjs[peerIn(rid, d)].consumers :
         /\ x \in DOMAIN handles
         /\ handles[x].kind = "consumer"
         /\ handles[x].src \notin DOMAIN handles
====
